---------------------------- MODULE Spec2Model ----------------------------
(***************************************************************************)
(* Model of mceditlib/anvil/adapter.py: the nibble codec, the section      *)
(* codec (12-bit block IDs through the optional Add array), the chunk's    *)
(* section store with its elision rule, and the world adapter's session    *)
(* lock, chunk I/O and save path.                                          *)
(*                                                                         *)
(* A grid is modelled by its cells along the last (x) axis, flattened to   *)
(* a sequence: numpy's index 2k of the last axis is position 2k+1 here     *)
(* (sequences are 1-based), index 2k+1 is position 2k+2.                   *)
(***************************************************************************)
EXTENDS Integers, Sequences, FiniteSets, TLC

VARIABLES
    \* --- nibble codec harness -------------------------------------------
    nibKind,      \* "packed": unpack then pack; "unpacked": pack then unpack
    nibOrig,      \* the input grid as it was handed to the first call
    nibArg,       \* the array object handed to the first call (after the calls)
    nibMid,       \* the array object the first call returned (after the calls)
    nibMid0,      \* the first call's result as it was returned
    nibOut,       \* the second call's result
    nibPc,        \* number of calls made so far (0, 1, 2)
    \* --- one AnvilSection -----------------------------------------------
    section,      \* the live AnvilSection object (its arrays and old_section_tag)
    record,       \* the TAG_Compound the last buildNBTTag returned, or NoTag
    encOf,        \* the arrays the section held when that call was made
    decoded,      \* AnvilSection(record), or NoSection before the decode
    edits,        \* number of in-place edits made so far
    \* --- AnvilWorldAdapter and the chunk its caller holds ------------------
    readonly,     \* self.readonly
    now,          \* the clock, in milliseconds (time.time() * 1000)
    lockTime,     \* self.lockTime
    lockFile,     \* the contents of session.lock in the world folder
    nodes,        \* self.revisionHistory.nodes
    selected,     \* self.selectedRevision, as an index into nodes
    metadata,     \* self.metadata: the level.dat value and the dirty flag
    chunk,        \* the AnvilChunkData the caller holds, or NoChunk
    ret,          \* the last adapter or chunk call and how it ended
    wrote,        \* the key and the section arrays of the last writeChunk
                  \* whose bytes are still the stored ones
    \* --- a second AnvilWorldAdapter opened on the same world folder --------
    peerLockTime, \* its self.lockTime, 0 while it has not been constructed
    peerRet       \* its last call and how it ended

nibVars == <<nibKind, nibOrig, nibArg, nibMid, nibMid0, nibOut, nibPc>>
secVars == <<section, record, encOf, decoded, edits>>
adVars == <<readonly, now, lockTime, lockFile, nodes, selected, metadata,
            chunk, ret, wrote>>
peerVars == <<peerLockTime, peerRet>>
vars == <<nibVars, secVars, adVars, peerVars>>

-----------------------------------------------------------------------------
(* Bounds *)

\* packed bytes per grid in the nibble harness (the grid has 2*NibPairs cells)
NibPairs == 2
\* packed bytes per nibble array of a Section (a Section has 2*SecPairs cells)
SecPairs == 1
\* in-place edits of Section arrays made by editing code
MaxEdits == 2

\* values the packed and unpacked grids of the harness are drawn from
ByteVals == {0, 1, 15, 16, 127, 128, 240, 255}
NibbleVals == {0, 1, 7, 8, 15}
\* values the edits write: block IDs [0..4095], 4-bit values [0..15]
BlockVals == {0, 255, 256, 4095}
LightVals == {0, 15}

-----------------------------------------------------------------------------
(* Fixed-width integer arithmetic (numpy uint8 / uint16) *)

RECURSIVE BitOr(_, _)
BitOr(a, b) ==
    IF a = 0 THEN b
    ELSE IF b = 0 THEN a
    ELSE (IF a % 2 = 1 \/ b % 2 = 1 THEN 1 ELSE 0) + 2 * BitOr(a \div 2, b \div 2)

\* x <<= n in an unsigned dtype of w bits
ShiftLeft(x, n, w) == (x * (2 ^ n)) % (2 ^ w)

\* x >>= n
ShiftRight(x, n) == x \div (2 ^ n)

-----------------------------------------------------------------------------
(* NibbleCodec *)

\* unpackNibbleArray: [::2] = dataArray & 0xf, [1::2] = dataArray >> 4
unpackNibbleArray(dataArray) ==
    [i \in 1..(2 * Len(dataArray)) |->
        IF i % 2 = 1 THEN dataArray[(i + 1) \div 2] % 16
                     ELSE ShiftRight(dataArray[i \div 2], 4)]

\* the argument of unpackNibbleArray after the call: it is only read
unpackNibbleArrayArg(dataArray) == dataArray

\* packNibbleArray on an array of a w-bit dtype: the last axis is grouped in
\* pairs; [..., 1] <<= 4; [..., 1] |= [..., 0]; the result is column 1
packNibbleArrayW(unpackedData, w) ==
    [k \in 1..(Len(unpackedData) \div 2) |->
        BitOr(ShiftLeft(unpackedData[2 * k], 4, w), unpackedData[2 * k - 1])]

\* a faulty packNibbleArray: the pair is combined the other way round
packNibbleArraySwapped(unpackedData) ==
    [k \in 1..(Len(unpackedData) \div 2) |->
        BitOr(ShiftLeft(unpackedData[2 * k - 1], 4, 8), unpackedData[2 * k])]

\* a faulty packNibbleArray whose shift keeps the bits above the eighth
packNibbleArrayUnmasked(unpackedData) == packNibbleArrayW(unpackedData, 16)

\* packNibbleArray of a uint8 array
packNibbleArray(unpackedData) == packNibbleArrayW(unpackedData, 8)

\* a faulty packNibbleArray working on a view of its argument, not on a copy
packNibbleArrayArgView(unpackedData) ==
    [i \in 1..Len(unpackedData) |->
        IF i % 2 = 0
        THEN BitOr(ShiftLeft(unpackedData[i], 4, 8), unpackedData[i - 1])
        ELSE unpackedData[i]]

\* the argument of packNibbleArray after the call: numpy.array(...) copies the
\* reshaped argument, and the in-place shifts act on the copy
packNibbleArrayArg(unpackedData) == unpackedData

-----------------------------------------------------------------------------
(* Nibble codec harness: one grid through both calls *)

Grids(n, vals) == [1..n -> vals]

NibInit ==
    /\ nibKind \in {"packed", "unpacked"}
    /\ nibOrig \in IF nibKind = "packed" THEN Grids(NibPairs, ByteVals)
                                         ELSE Grids(2 * NibPairs, NibbleVals)
    /\ nibArg = nibOrig
    /\ nibMid = << >>
    /\ nibMid0 = << >>
    /\ nibOut = << >>
    /\ nibPc = 0

\* cells of a uint8 array handed to packNibbleArray that is not known to hold
\* nibbles
WideVals == {0, 8, 15, 16, 31, 255}

\* as NibInit, with any uint8 array as the argument of packNibbleArray
NibWideInit ==
    /\ nibKind \in {"packed", "unpacked"}
    /\ nibOrig \in IF nibKind = "packed" THEN Grids(NibPairs, ByteVals)
                                         ELSE Grids(2 * NibPairs, WideVals)
    /\ nibArg = nibOrig
    /\ nibMid = << >>
    /\ nibMid0 = << >>
    /\ nibOut = << >>
    /\ nibPc = 0

NibIdle ==
    /\ nibKind = "packed"
    /\ nibOrig = [i \in 1..NibPairs |-> 0]
    /\ nibArg = nibOrig
    /\ nibMid = << >>
    /\ nibMid0 = << >>
    /\ nibOut = << >>
    /\ nibPc = 0

\* unpackedData = unpackNibbleArray(g)
UnpackFirst ==
    /\ nibKind = "packed" /\ nibPc = 0
    /\ nibMid' = unpackNibbleArray(nibArg)
    /\ nibMid0' = unpackNibbleArray(nibArg)
    /\ nibArg' = unpackNibbleArrayArg(nibArg)
    /\ nibPc' = 1
    /\ UNCHANGED <<nibKind, nibOrig, nibOut>>
    /\ UNCHANGED <<secVars, adVars, peerVars>>

\* packNibbleArray(unpackedData)
PackSecond ==
    /\ nibKind = "packed" /\ nibPc = 1
    /\ nibOut' = packNibbleArray(nibMid)
    /\ nibMid' = packNibbleArrayArg(nibMid)
    /\ nibPc' = 2
    /\ UNCHANGED <<nibKind, nibOrig, nibArg, nibMid0>>
    /\ UNCHANGED <<secVars, adVars, peerVars>>

\* packedData = packNibbleArray(u)
PackFirst ==
    /\ nibKind = "unpacked" /\ nibPc = 0
    /\ nibMid' = packNibbleArray(nibArg)
    /\ nibMid0' = packNibbleArray(nibArg)
    /\ nibArg' = packNibbleArrayArg(nibArg)
    /\ nibPc' = 1
    /\ UNCHANGED <<nibKind, nibOrig, nibOut>>
    /\ UNCHANGED <<secVars, adVars, peerVars>>

\* unpackNibbleArray(packedData)
UnpackSecond ==
    /\ nibKind = "unpacked" /\ nibPc = 1
    /\ nibOut' = unpackNibbleArray(nibMid)
    /\ nibMid' = unpackNibbleArrayArg(nibMid)
    /\ nibPc' = 2
    /\ UNCHANGED <<nibKind, nibOrig, nibArg, nibMid0>>
    /\ UNCHANGED <<secVars, adVars, peerVars>>

-----------------------------------------------------------------------------
(* TAG_Compound: a mapping from key to value *)

EmptyTag == [k \in {} |-> 0]

TagSet(tag, key, value) ==
    [k \in (DOMAIN tag) \cup {key} |-> IF k = key THEN value ELSE tag[k]]

TagPop(tag, key) == [k \in (DOMAIN tag) \ {key} |-> tag[k]]

TagPopAll(tag, keys) == [k \in (DOMAIN tag) \ keys |-> tag[k]]

NoTag == [none |-> TRUE]
NoSection == [none |-> TRUE]

-----------------------------------------------------------------------------
(* AnvilSection *)

SecCells == 2 * SecPairs

\* an array with the same value in every position (numpy.zeros, a[:] = v)
Filled(n, v) == [i \in 1..n |-> v]

\* AnvilSection._create
AnvilSection_create ==
    [Y |-> 0,
     Blocks |-> Filled(SecCells, 0),
     Data |-> Filled(SecCells, 0),
     SkyLight |-> Filled(SecCells, 0),
     BlockLight |-> Filled(SecCells, 0),
     old_section_tag |-> EmptyTag]

\* AnvilSection._load: the keys are popped from section_tag, which is kept
\* as old_section_tag
AnvilSection_load(section_tag) ==
    LET base == section_tag["Blocks"]
        add  == unpackNibbleArray(section_tag["Add"])
    IN  [Y |-> section_tag["Y"],
         Blocks |-> IF "Add" \in DOMAIN section_tag
                    THEN [i \in 1..Len(base) |->
                            BitOr(base[i], ShiftLeft(add[i], 8, 16))]
                    ELSE base,
         Data |-> unpackNibbleArray(section_tag["Data"]),
         SkyLight |-> unpackNibbleArray(section_tag["SkyLight"]),
         BlockLight |-> unpackNibbleArray(section_tag["BlockLight"]),
         old_section_tag |->
            TagPopAll(section_tag,
                      {"Y", "Blocks", "Data", "SkyLight", "BlockLight", "Add"})]

\* AnvilSection.__init__
AnvilSection(section_tag) ==
    IF DOMAIN section_tag # {} THEN AnvilSection_load(section_tag)
                               ELSE AnvilSection_create

\* a faulty buildNBTTag that writes Add always, zero-filled when no ID needs it
AddFieldAlways(tag, add) ==
    TagSet(tag, "Add", [k \in 1..(Len(add) \div 2) |->
                          packNibbleArrayW(add, 16)[k] % 256])

\* a faulty buildNBTTag that never writes Add
AddFieldNever(tag, add) == tag

\* buildNBTTag, lines 169-171: Add is written only when some add is nonzero;
\* otherwise the tag is left as it is
AddField(tag, add) ==
    IF \E i \in 1..Len(add) : add[i] # 0
    THEN TagSet(tag, "Add", [k \in 1..(Len(add) \div 2) |->
                               packNibbleArrayW(add, 16)[k] % 256])
    ELSE tag

\* AnvilSection.buildNBTTag: the fields are written into old_section_tag,
\* which is returned
AnvilSection_buildNBTTag(self) ==
    LET add == [i \in 1..Len(self.Blocks) |-> ShiftRight(self.Blocks[i], 8)]
        t1  == AddField(self.old_section_tag, add)
        t2  == TagSet(t1, "Blocks", [i \in 1..Len(self.Blocks) |-> self.Blocks[i] % 256])
        t3  == TagSet(t2, "Data", packNibbleArray(self.Data))
        t4  == TagSet(t3, "BlockLight", packNibbleArray(self.BlockLight))
        t5  == TagSet(t4, "SkyLight", packNibbleArray(self.SkyLight))
    IN  TagSet(t5, "Y", self.Y)

\* the four arrays of a section
Arrays(s) == [Blocks |-> s.Blocks, Data |-> s.Data,
              BlockLight |-> s.BlockLight, SkyLight |-> s.SkyLight]

-----------------------------------------------------------------------------
(* One Section: edited in place, encoded, decoded *)

\* stored section records a Section may have been decoded from
StoredSectionTags ==
    { [Y |-> 0,
       Blocks |-> [i \in 1..SecCells |-> IF i % 2 = 1 THEN 1 ELSE 255],
       Data |-> Filled(SecPairs, 90),
       SkyLight |-> Filled(SecPairs, 255),
       BlockLight |-> Filled(SecPairs, 0)],
      [Y |-> 0,
       Blocks |-> [i \in 1..SecCells |-> IF i % 2 = 1 THEN 0 ELSE 255],
       Data |-> Filled(SecPairs, 15),
       SkyLight |-> Filled(SecPairs, 240),
       BlockLight |-> Filled(SecPairs, 165),
       Add |-> Filled(SecPairs, 241)] }

SecInit ==
    /\ section \in {AnvilSection_create} \cup
                   {AnvilSection(t) : t \in StoredSectionTags}
    /\ record = NoTag
    /\ encOf = NoSection
    /\ decoded = NoSection
    /\ edits = 0

SecIdle ==
    /\ section = AnvilSection_create
    /\ record = NoTag
    /\ encOf = NoSection
    /\ decoded = NoSection
    /\ edits = 0

\* editing code writes one cell of one array, within the array's range
EditSection ==
    /\ edits < MaxEdits
    /\ \E i \in 1..SecCells :
         \/ \E v \in BlockVals :
              section' = [section EXCEPT !.Blocks[i] = v]
         \/ \E name \in {"Data", "SkyLight", "BlockLight"}, v \in LightVals :
              section' = [section EXCEPT ![name][i] = v]
    /\ section' # section
    /\ edits' = edits + 1
    /\ record' = NoTag
    /\ encOf' = NoSection
    /\ decoded' = NoSection
    /\ UNCHANGED <<nibVars, adVars, peerVars>>

\* section_tag = section.buildNBTTag()
EncodeSection ==
    /\ record' = AnvilSection_buildNBTTag(section)
    /\ section' = [section EXCEPT !.old_section_tag = AnvilSection_buildNBTTag(section)]
    /\ encOf' = Arrays(section)
    /\ decoded' = NoSection
    /\ UNCHANGED edits
    /\ UNCHANGED <<nibVars, adVars, peerVars>>

\* AnvilSection(section_tag) on the record as saved and loaded again
\* (tag.save() / nbt.load): the decoder works on its own copy of the tag
DecodeSaved ==
    /\ record # NoTag
    /\ decoded = NoSection
    /\ decoded' = AnvilSection(record)
    /\ UNCHANGED <<section, record, encOf, edits>>
    /\ UNCHANGED <<nibVars, adVars, peerVars>>

\* AnvilSection(section_tag) on the returned tag itself: it is the section's
\* old_section_tag, and the decoder pops its keys
DecodeReturned ==
    /\ record # NoTag
    /\ decoded = NoSection
    /\ decoded' = AnvilSection(record)
    /\ section' = [section EXCEPT
                     !.old_section_tag = AnvilSection(record).old_section_tag]
    /\ UNCHANGED <<record, encOf, edits>>
    /\ UNCHANGED <<nibVars, adVars, peerVars>>

-----------------------------------------------------------------------------
(* AnvilChunkData *)

\* AnvilWorldAdapter.minHeight, AnvilWorldAdapter.maxHeight
minHeight == 0
maxHeight == 256

NoChunk == [none |-> TRUE]

\* the mapping with no keys (an empty dict)
EmptyMap == [k \in {} |-> 0]

\* self._sections is a dict with int keys. CPython 2 keeps it in a table of
\* eight slots while it holds at most five keys: a key goes to slot
\* hash & 7, and on a collision to the slots of the probe sequence
\* i = 5*i + perturb + 1, perturb >>= 5; iteration follows the slots.
\* The slot the key is stored in, given the slots in use:
RECURSIVE DictProbe(_, _, _)
DictProbe(i, perturb, used) ==
    IF (i % 8) \notin used THEN i % 8
    ELSE DictProbe(5 * i + perturb + 1, perturb \div 32, used)

\* self._sections[key] = ...: the slots after the assignment
DictInsert(slots, key) ==
    IF key \in DOMAIN slots THEN slots
    ELSE (key :> DictProbe(key % 8, key, {slots[k] : k \in DOMAIN slots})) @@ slots

\* self._sections.iteritems(): the keys in the order of their slots
DictOrder(slots) ==
    CHOOSE o \in [1..Cardinality(DOMAIN slots) -> DOMAIN slots] :
        \A i, j \in DOMAIN o : i < j => slots[o[i]] < slots[o[j]]

\* AnvilChunkData._create, and __init__ after it: the Level tag of a new chunk
\* (HeightMap, LastUpdate, Biomes and the entity lists are carried unchanged
\* by every operation modelled here and are left out)
AnvilChunkData_create(cx, cz, dimName) ==
    [cx |-> cx, cz |-> cz, dimName |-> dimName,
     rootTag |-> [xPos |-> cx, zPos |-> cz, TerrainPopulated |-> 1],
     sections |-> EmptyMap,
     slots |-> EmptyMap,
     dirty |-> TRUE]

\* for sec in Sections: self._sections[sec["Y"].value] = AnvilSection(sec);
\* a later entry of the list replaces an earlier one with the same Y
RECURSIVE LoadSections(_, _)
LoadSections(list, n) ==
    IF n = 0 THEN EmptyMap
    ELSE (list[n]["Y"] :> AnvilSection(list[n])) @@ LoadSections(list, n - 1)

\* the slots of self._sections after the loop of _load
RECURSIVE LoadSlots(_, _)
LoadSlots(list, n) ==
    IF n = 0 THEN EmptyMap
    ELSE DictInsert(LoadSlots(list, n - 1), list[n]["Y"])

\* AnvilChunkData._load: Sections is popped from the Level tag, [] when missing
AnvilChunkData_load(cx, cz, dimName, rootTag) ==
    LET list == IF "Sections" \in DOMAIN rootTag THEN rootTag["Sections"] ELSE << >>
    IN  [cx |-> cx, cz |-> cz, dimName |-> dimName,
         rootTag |-> TagPop(rootTag, "Sections"),
         sections |-> LoadSections(list, Len(list)),
         slots |-> LoadSlots(list, Len(list)),
         dirty |-> FALSE]

\* a faulty height check: every index passes
HeightCheckNone(cy) == FALSE

\* getSection, line 284: the index is refused when this holds
HeightCheckFails(cy) == (cy * 16) > maxHeight \/ cy < 0

\* AnvilChunkData.getSection: what the call returns, "ValueError" when it raises
getSection_ret(self, cy, create) ==
    IF HeightCheckFails(cy)
    THEN IF create THEN "ValueError" ELSE "None"
    ELSE IF cy \in DOMAIN self.sections THEN "section"
         ELSE IF create THEN "section" ELSE "None"

\* a faulty getSection that stores a blank Section whenever create is set
getSection_sectionsReplacing(self, cy, create) ==
    IF ~HeightCheckFails(cy) /\ create
    THEN (cy :> [AnvilSection_create EXCEPT !.Y = cy]) @@ self.sections
    ELSE self.sections

\* AnvilChunkData.getSection: self._sections after the call
getSection_sections(self, cy, create) ==
    IF ~HeightCheckFails(cy) /\ cy \notin DOMAIN self.sections /\ create
    THEN (cy :> [AnvilSection_create EXCEPT !.Y = cy]) @@ self.sections
    ELSE self.sections

\* AnvilChunkData.getSection: the slots of self._sections after the call
getSection_slots(self, cy, create) ==
    IF ~HeightCheckFails(cy) /\ cy \notin DOMAIN self.sections /\ create
    THEN DictInsert(self.slots, cy)
    ELSE self.slots

\* AnvilChunkData.sectionPositions
sectionPositions(self) == DOMAIN self.sections

\* a faulty elision test: SkyLight is not looked at
ElidedIgnoringSkyLight(sec) ==
    /\ \A i \in 1..Len(sec.Blocks) : sec.Blocks[i] = 0
    /\ \A i \in 1..Len(sec.BlockLight) : sec.BlockLight[i] = 0

\* a faulty elision test: no section is skipped
ElidedNever(sec) == FALSE

\* buildNBTTag, lines 257-260: the section is skipped when this holds
Elided(sec) ==
    /\ ~ \E i \in 1..Len(sec.Blocks) : sec.Blocks[i] # 0
    /\ ~ \E i \in 1..Len(sec.BlockLight) : sec.BlockLight[i] # 0
    /\ \A i \in 1..Len(sec.SkyLight) : sec.SkyLight[i] = 15

\* AnvilChunkData.buildNBTTag with self._sections iterated in the given order:
\* the tag it returns
AnvilChunkData_buildNBTTag(self, order) ==
    LET kept == SelectSeq(order, LAMBDA cy : ~Elided(self.sections[cy]))
    IN  TagSet(self.rootTag, "Sections",
               [j \in 1..Len(kept) |-> AnvilSection_buildNBTTag(self.sections[kept[j]])])

\* AnvilChunkData.buildNBTTag: the chunk after the call (each section that was
\* encoded keeps the tag it wrote as its old_section_tag)
AnvilChunkData_afterBuild(self) ==
    [self EXCEPT !.sections =
        [cy \in DOMAIN self.sections |->
            IF Elided(self.sections[cy]) THEN self.sections[cy]
            ELSE [self.sections[cy] EXCEPT
                    !.old_section_tag = AnvilSection_buildNBTTag(self.sections[cy])]]]

\* the Y values of the section records of a stored chunk
StoredYs(chunkTag) ==
    IF "Sections" \in DOMAIN chunkTag
    THEN {chunkTag["Sections"][j]["Y"] : j \in DOMAIN chunkTag["Sections"]}
    ELSE {}

-----------------------------------------------------------------------------
(* The versioned store behind selectedRevision: a revision holds chunks
   (key -> bytes) and files (name -> bytes); nodes[1] is the world folder *)

\* the chunk positions (cx, cz, dimName) the adapter is called with
ChunkKeys == {<<0, 0, "">>}

Rev_containsChunk(rev, key) == key \in DOMAIN rev.chunks

Rev_readChunkBytes(rev, key) == rev.chunks[key]

Rev_writeChunkBytes(rev, key, bytes) ==
    [rev EXCEPT !.chunks = (key :> bytes) @@ rev.chunks]

Rev_deleteChunk(rev, key) ==
    [rev EXCEPT !.chunks = [k \in (DOMAIN rev.chunks) \ {key} |-> rev.chunks[k]]]

Rev_writeFile(rev, name, bytes) ==
    [rev EXCEPT !.files = (name :> bytes) @@ rev.files]

\* RevisionHistory.getHead: the newest revision
History_getHead(history) == Len(history)

\* RevisionHistory.createRevision: a new revision layered on the given one
History_createRevision(history, rev) == Append(history, history[rev])

\* RevisionHistory.writeAllChanges: the world folder receives the contents of
\* the given revision
History_writeAllChanges(history, rev) == [history EXCEPT ![1] = history[rev]]

-----------------------------------------------------------------------------
(* AnvilWorldAdapter *)

\* the clock stops here
MaxTime == 2
\* revisions the history may hold, the world folder included
MaxRevisions == 2
\* sections a held chunk may hold
MaxHeld == 2
\* in-place edits of the held chunk's sections made by editing code
MaxHeldEdits == 1

\* values written to level.dat through the metadata accessors
MetaVals == {2}

\* section indices getSection is called with
CyInputs == {-1, 0, (maxHeight \div 16) - 1, maxHeight \div 16,
             (maxHeight \div 16) + 1}

NoCall == [op |-> "none", outcome |-> "none", arg |-> << >>]
NoWrite == [none |-> TRUE]

Ret(op, outcome, arg) == [op |-> op, outcome |-> outcome, arg |-> arg]

Stamp(t) == [kind |-> "stamp", t |-> t]

\* no second adapter has been opened on the world folder
PeerIdle ==
    /\ peerLockTime = 0
    /\ peerRet = NoCall

\* chunk records found in a world folder
StoredChunkTags ==
    { [xPos |-> 0, zPos |-> 0, TerrainPopulated |-> 0],
      [xPos |-> 0, zPos |-> 0, TerrainPopulated |-> 1,
       Sections |-> << [Y |-> 0,
                        Blocks |-> [i \in 1..SecCells |-> IF i % 2 = 1 THEN 0 ELSE 255],
                        Data |-> Filled(SecPairs, 15),
                        SkyLight |-> Filled(SecPairs, 240),
                        BlockLight |-> Filled(SecPairs, 165),
                        Add |-> Filled(SecPairs, 241)] >>] }

\* world folders an adapter is opened on: level.dat and at most one chunk
WorldFolders ==
    { [chunks |-> EmptyMap, files |-> [f \in {"level.dat"} |-> 1]] } \cup
    { [chunks |-> [k \in {<<0, 0, "">>} |-> t], files |-> [f \in {"level.dat"} |-> 1]]
        : t \in StoredChunkTags }

\* the adapter as __init__ leaves it on an existing world with a readable
\* level.dat: a writable adapter has acquired the session lock
AdInit ==
    /\ readonly \in BOOLEAN
    /\ now = 1
    /\ lockTime = IF readonly THEN 0 ELSE now
    /\ lockFile \in IF readonly THEN {[kind |-> "missing"], Stamp(now)}
                                ELSE {Stamp(now)}
    /\ nodes \in {<<w>> : w \in WorldFolders}
    /\ selected = 1
    /\ metadata = [value |-> 1, dirty |-> FALSE]
    /\ chunk = NoChunk
    /\ ret = NoCall
    /\ wrote = NoWrite
    /\ PeerIdle

AdIdle ==
    /\ readonly = FALSE
    /\ now = 1
    /\ lockTime = 1
    /\ lockFile = Stamp(1)
    /\ nodes = << [chunks |-> EmptyMap, files |-> [f \in {"level.dat"} |-> 1]] >>
    /\ selected = 1
    /\ metadata = [value |-> 1, dirty |-> FALSE]
    /\ chunk = NoChunk
    /\ ret = NoCall
    /\ wrote = NoWrite
    /\ PeerIdle

(* --- Session lock --- *)

\* struct.unpack(">q", ...) of the lock file: -1 on struct.error
ReadLock == IF lockFile.kind = "stamp" THEN lockFile.t ELSE -1

\* a faulty comparison: a newer stamp in the file is accepted
LockMismatchOlderOnly == ReadLock < lockTime

\* checkSessionLock, line 629
LockMismatch == ReadLock # lockTime

\* a faulty checkSessionLock that never raises on a writable adapter
checkSessionLockNoCompare ==
    IF readonly THEN "SessionLockLost" ELSE "ok"

\* AnvilWorldAdapter.checkSessionLock: "ok" when it returns, otherwise the
\* exception it raises
checkSessionLock ==
    IF readonly THEN "SessionLockLost"
    ELSE IF lockFile.kind = "missing" THEN "IOError"
    ELSE IF LockMismatch THEN "SessionLockLost"
    ELSE "ok"

\* time passes
Tick ==
    /\ now < MaxTime
    /\ now' = now + 1
    /\ ret' = NoCall
    /\ UNCHANGED <<readonly, lockTime, lockFile, nodes, selected, metadata, chunk, wrote>>
    /\ UNCHANGED <<nibVars, secVars, peerVars>>

\* another program opens the world and writes its own session.lock
ExternalAcquire ==
    /\ lockFile' = Stamp(now)
    /\ ret' = NoCall
    /\ UNCHANGED <<readonly, now, lockTime, nodes, selected, metadata, chunk, wrote>>
    /\ UNCHANGED <<nibVars, secVars, peerVars>>

\* another program leaves a session.lock that is not 8 bytes long
ExternalTruncate ==
    /\ lockFile' = [kind |-> "short"]
    /\ ret' = NoCall
    /\ UNCHANGED <<readonly, now, lockTime, nodes, selected, metadata, chunk, wrote>>
    /\ UNCHANGED <<nibVars, secVars, peerVars>>

CheckSessionLock ==
    /\ ret' = Ret("checkSessionLock", checkSessionLock, << >>)
    /\ UNCHANGED <<readonly, now, lockTime, lockFile, nodes, selected, metadata, chunk, wrote>>
    /\ UNCHANGED <<nibVars, secVars, peerVars>>

\* the second adapter is constructed writable on the same folder: its
\* __init__ calls acquireSessionLock, which stamps session.lock with the
\* current millisecond
PeerAcquire ==
    /\ ~readonly
    /\ peerLockTime = 0
    /\ peerLockTime' = now
    /\ lockFile' = Stamp(now)
    /\ peerRet' = Ret("open", "ok", << >>)
    /\ ret' = NoCall
    /\ UNCHANGED <<readonly, now, lockTime, nodes, selected, metadata, chunk, wrote>>
    /\ UNCHANGED <<nibVars, secVars>>

\* checkSessionLock as the second (writable) adapter runs it
peerCheckSessionLock ==
    IF lockFile.kind = "missing" THEN "IOError"
    ELSE IF ReadLock # peerLockTime THEN "SessionLockLost"
    ELSE "ok"

PeerCheckSessionLock ==
    /\ peerLockTime # 0
    /\ peerRet' = Ret("checkSessionLock", peerCheckSessionLock, << >>)
    /\ UNCHANGED <<peerLockTime, adVars, nibVars, secVars>>

(* --- Save --- *)

\* a faulty saveChanges that does not check the session lock
saveChangesUnchecked ==
    IF readonly THEN "IOError" ELSE "ok"

\* AnvilWorldAdapter.saveChanges, lines 502-505: how the checks end
saveChangesChecks ==
    IF readonly THEN "IOError" ELSE checkSessionLock

SaveChanges ==
    /\ ret' = Ret("saveChanges", saveChangesChecks, << >>)
    /\ IF saveChangesChecks = "ok"
       THEN /\ nodes' = History_writeAllChanges(nodes, selected)
            /\ selected' = History_getHead(nodes)
            /\ wrote' = NoWrite
       ELSE UNCHANGED <<nodes, selected, wrote>>
    /\ UNCHANGED <<readonly, now, lockTime, lockFile, metadata, chunk>>
    /\ UNCHANGED <<nibVars, secVars, peerVars>>

\* a faulty syncToDisk that writes level.dat whether or not the flag is set
syncToDiskWritesAlways == TRUE

\* syncToDisk, line 491: level.dat is written when the flag is set
syncToDiskWrites == metadata.dirty

\* AnvilWorldAdapter.syncToDisk
SyncToDisk ==
    /\ ret' = Ret("syncToDisk", "ok", << >>)
    /\ IF syncToDiskWrites
       THEN /\ nodes' = [nodes EXCEPT ![selected] =
                            Rev_writeFile(nodes[selected], "level.dat", metadata.value)]
            /\ metadata' = [metadata EXCEPT !.dirty = FALSE]
       ELSE UNCHANGED <<nodes, metadata>>
    /\ UNCHANGED <<readonly, now, lockTime, lockFile, selected, chunk, wrote>>
    /\ UNCHANGED <<nibVars, secVars, peerVars>>

\* a metadata field is set through its NBTAttr accessor
SetMetadataAttr ==
    /\ \E v \in MetaVals : metadata' = [value |-> v, dirty |-> TRUE]
    /\ ret' = NoCall
    /\ UNCHANGED <<readonly, now, lockTime, lockFile, nodes, selected, chunk, wrote>>
    /\ UNCHANGED <<nibVars, secVars, peerVars>>

(* --- Revisions --- *)

\* AnvilWorldAdapter.createRevision
CreateRevision ==
    /\ ~readonly
    /\ Len(nodes) < MaxRevisions
    /\ nodes' = History_createRevision(nodes, selected)
    /\ selected' = Len(nodes')
    /\ ret' = Ret("createRevision", "ok", << >>)
    /\ wrote' = NoWrite
    /\ UNCHANGED <<readonly, now, lockTime, lockFile, metadata, chunk>>
    /\ UNCHANGED <<nibVars, secVars, peerVars>>

(* --- Chunks --- *)

\* AnvilWorldAdapter.readChunk
ReadChunk ==
    /\ \E key \in ChunkKeys :
         IF Rev_containsChunk(nodes[selected], key)
         THEN /\ chunk' = AnvilChunkData_load(key[1], key[2], key[3],
                              Rev_readChunkBytes(nodes[selected], key))
              /\ ret' = Ret("readChunk", "ok", key)
         ELSE /\ ret' = Ret("readChunk", "ChunkNotPresent", key)
              /\ UNCHANGED chunk
    /\ UNCHANGED <<readonly, now, lockTime, lockFile, nodes, selected, metadata, wrote>>
    /\ UNCHANGED <<nibVars, secVars, peerVars>>

\* AnvilWorldAdapter.writeChunk: no check is made before the write
writeChunkChecks == "ok"

\* AnvilWorldAdapter.writeChunk on the held chunk
WriteChunk ==
    /\ chunk # NoChunk
    /\ ret' = Ret("writeChunk", writeChunkChecks, <<chunk.cx, chunk.cz, chunk.dimName>>)
    /\ IF writeChunkChecks = "ok"
       THEN /\ nodes' = [nodes EXCEPT ![selected] =
                    Rev_writeChunkBytes(nodes[selected],
                        <<chunk.cx, chunk.cz, chunk.dimName>>,
                        AnvilChunkData_buildNBTTag(chunk, DictOrder(chunk.slots)))]
            /\ chunk' = AnvilChunkData_afterBuild(chunk)
            /\ wrote' = [key |-> <<chunk.cx, chunk.cz, chunk.dimName>>,
                         sections |-> [cy \in DOMAIN chunk.sections |->
                                          Arrays(chunk.sections[cy])]]
       ELSE UNCHANGED <<nodes, chunk, wrote>>
    /\ UNCHANGED <<readonly, now, lockTime, lockFile, selected, metadata>>
    /\ UNCHANGED <<nibVars, secVars, peerVars>>

\* a faulty createChunk that does not look for an existing chunk
createChunkExistsNever(key) == FALSE

\* createChunk, line 745
createChunkExists(key) == Rev_containsChunk(nodes[selected], key)

\* AnvilWorldAdapter.createChunk
CreateChunk ==
    /\ \E key \in ChunkKeys :
         IF createChunkExists(key)
         THEN /\ ret' = Ret("createChunk", "ValueError", key)
              /\ UNCHANGED <<nodes, chunk, wrote>>
         ELSE LET new == AnvilChunkData_create(key[1], key[2], key[3])
              IN  /\ nodes' = [nodes EXCEPT ![selected] =
                        Rev_writeChunkBytes(nodes[selected], key,
                            AnvilChunkData_buildNBTTag(new, << >>))]
                  /\ chunk' = new
                  /\ ret' = Ret("createChunk", "ok", key)
                  /\ wrote' = NoWrite
    /\ UNCHANGED <<readonly, now, lockTime, lockFile, selected, metadata>>
    /\ UNCHANGED <<nibVars, secVars, peerVars>>

\* AnvilWorldAdapter.deleteChunk
DeleteChunk ==
    /\ \E key \in ChunkKeys :
         /\ nodes' = [nodes EXCEPT ![selected] = Rev_deleteChunk(nodes[selected], key)]
         /\ ret' = Ret("deleteChunk", "ok", key)
    /\ wrote' = NoWrite
    /\ UNCHANGED <<readonly, now, lockTime, lockFile, selected, metadata, chunk>>
    /\ UNCHANGED <<nibVars, secVars, peerVars>>

(* --- The held chunk --- *)

\* chunk.getSection(cy, create) with the index and the flag drawn from the
\* given sets
GetSectionWith(cys, creates) ==
    /\ chunk # NoChunk
    /\ \E cy \in cys, create \in creates :
         /\ Cardinality(DOMAIN getSection_sections(chunk, cy, create)) <= MaxHeld
         /\ chunk' = [chunk EXCEPT !.sections = getSection_sections(chunk, cy, create),
                                   !.slots = getSection_slots(chunk, cy, create)]
         /\ ret' = Ret("getSection", getSection_ret(chunk, cy, create), <<cy, create>>)
    /\ UNCHANGED <<readonly, now, lockTime, lockFile, nodes, selected, metadata, wrote>>
    /\ UNCHANGED <<nibVars, secVars, peerVars>>

\* chunk.getSection(cy, create) with any index and flag
GetSection == GetSectionWith(CyInputs, BOOLEAN)

\* editing code materializes a section it is about to fill:
\* chunk.getSection(cy, create=True) for a slab inside the world
CreateSection == GetSectionWith({0, 8}, {TRUE})

\* block IDs the editing code writes into a held section
HeldBlockVals == {0, 256}

\* editing code writes the first or the last cell of Blocks, BlockLight or
\* SkyLight of a held section, or fills its SkyLight (section.SkyLight[:] = v)
EditHeld ==
    /\ chunk # NoChunk
    /\ edits < MaxHeldEdits
    /\ \E cy \in DOMAIN chunk.sections :
         \/ \E i \in {1, SecCells}, v \in HeldBlockVals :
              chunk' = [chunk EXCEPT !.sections[cy].Blocks[i] = v]
         \/ \E i \in {1, SecCells}, name \in {"SkyLight", "BlockLight"},
               v \in LightVals :
              chunk' = [chunk EXCEPT !.sections[cy][name][i] = v]
         \/ \E v \in LightVals :
              chunk' = [chunk EXCEPT !.sections[cy].SkyLight = Filled(SecCells, v)]
    /\ chunk' # chunk
    /\ edits' = edits + 1
    /\ ret' = NoCall
    /\ UNCHANGED <<readonly, now, lockTime, lockFile, nodes, selected, metadata, wrote>>
    /\ UNCHANGED <<nibVars, section, record, encOf, decoded, peerVars>>

-----------------------------------------------------------------------------
(* World metadata: level.dat *)

VERSION_MCR == 19132
VERSION_ANVIL == 19133

NoMeta == [none |-> TRUE]

\* AnvilWorldMetadata.__init__: the loaded tag is kept, the flag starts clear
AnvilWorldMetadata(metadataTag) == [value |-> metadataTag, dirty |-> FALSE]

\* metadata.rootTag: the Data compound of the metadata tag
rootTag(meta) == meta.value["Data"]

\* random seeds _createMetadataTag may draw
Seeds == {-1, 5}

\* AnvilWorldAdapter._createMetadataTag: spawn at (0, 2, 0), the given seed,
\* the current time, the folder's name; the fields set through the NBTAttr
\* accessors leave the flag set
createMetadataTag(seed, time, name) ==
    [value |-> [Data |-> [SpawnX |-> 0, SpawnY |-> 2, SpawnZ |-> 0,
                          version |-> VERSION_ANVIL,
                          LastPlayed |-> time, RandomSeed |-> seed,
                          SizeOnDisk |-> 0, Time |-> 1, LevelName |-> name]],
     dirty |-> TRUE]

\* a level.dat or level.dat_old that nbt.load cannot read
Corrupt == [corrupt |-> TRUE]

\* a readable metadata tag with the given level name and format version
LevelDat(name, version) ==
    [Data |-> [SpawnX |-> 8, SpawnY |-> 64, SpawnZ |-> 8,
               version |-> version, LevelName |-> name]]

\* selectedRevision.readFile followed by nbt.load succeeds
Readable(rev, name) ==
    name \in DOMAIN rev.files /\ "Data" \in DOMAIN rev.files[name]

Rev_readFile(rev, name) == rev.files[name]

-----------------------------------------------------------------------------
(* AnvilWorldAdapter.__init__ *)

\* what is found at the path given to __init__
Targets ==
    { [kind |-> "absent", chunks |-> EmptyMap, files |-> EmptyMap],
      [kind |-> "file", chunks |-> EmptyMap, files |-> EmptyMap] } \cup
    { [kind |-> "dir", chunks |-> EmptyMap, files |-> f] :
        f \in { EmptyMap,
                [n \in {"level.dat"} |-> LevelDat("new", VERSION_ANVIL)],
                [n \in {"level.dat"} |-> LevelDat("new", VERSION_MCR)],
                [n \in {"level.dat"} |-> Corrupt],
                [n \in {"level.dat_old"} |-> LevelDat("old", VERSION_ANVIL)],
                [n \in {"level.dat_old"} |-> LevelDat("old", VERSION_MCR)],
                [n \in {"level.dat_old"} |-> Corrupt],
                [n \in {"level.dat", "level.dat_old"} |->
                    IF n = "level.dat" THEN LevelDat("new", VERSION_ANVIL)
                                       ELSE LevelDat("old", VERSION_ANVIL)],
                [n \in {"level.dat", "level.dat_old"} |->
                    IF n = "level.dat" THEN Corrupt
                                       ELSE LevelDat("old", VERSION_ANVIL)],
                [n \in {"level.dat", "level.dat_old"} |->
                    IF n = "level.dat" THEN Corrupt
                                       ELSE LevelDat("old", VERSION_MCR)],
                [n \in {"level.dat", "level.dat_old"} |-> Corrupt] } }

\* before __init__ is called there is no adapter
Unopened ==
    /\ readonly = FALSE
    /\ now = 1
    /\ lockTime = 0
    /\ lockFile = [kind |-> "missing"]
    /\ nodes \in {<<t>> : t \in Targets}
    /\ selected = 1
    /\ metadata = NoMeta
    /\ chunk = NoChunk
    /\ ret = NoCall
    /\ wrote = NoWrite
    /\ PeerIdle

\* __init__, lines 399-415: how the checks of the arguments and the path end
openChecks(target, create, ro) ==
    IF create /\ ro THEN "AssertionError"
    ELSE IF target.kind = "absent"
         THEN IF ~create THEN "IOError" ELSE "ok"
    ELSE IF create /\ (target.kind # "dir" \/ "level.dat" \in DOMAIN target.files)
         THEN "IOError"
    ELSE IF target.kind # "dir" THEN "IOError"
    ELSE "ok"

\* __init__, line 443: how the saveChanges call made after restoring
\* level.dat_old ends; a writable adapter has just written the lock file
openSaveChanges(ro) == IF ro THEN "IOError" ELSE "ok"

\* __init__, lines 433-447, create=False: the metadata the adapter ends with
openLoadMetadata(rev, ro, seed, time) ==
    IF Readable(rev, "level.dat")
    THEN AnvilWorldMetadata(Rev_readFile(rev, "level.dat"))
    ELSE IF Readable(rev, "level.dat_old") /\ openSaveChanges(ro) = "ok"
    THEN AnvilWorldMetadata(Rev_readFile(rev, "level.dat_old"))
    ELSE createMetadataTag(seed, time, "world")

\* a faulty __init__ that accepts any format version
openVersionOkAlways(meta) == TRUE

\* __init__, line 449: the assertion on the version of the metadata
openVersionOk(meta) == rootTag(meta)["version"] = VERSION_ANVIL

\* AnvilWorldAdapter(filename, create, readonly)
Open ==
    /\ metadata = NoMeta /\ ret = NoCall
    /\ \E create \in BOOLEAN, ro \in BOOLEAN, seed \in Seeds :
         LET target == nodes[1]
             folder == [target EXCEPT !.kind = "dir"]
             meta   == IF create THEN createMetadataTag(seed, now, "world")
                       ELSE openLoadMetadata(folder, ro, seed, now)
         IN  IF openChecks(target, create, ro) # "ok"
             THEN /\ ret' = Ret("open", openChecks(target, create, ro), <<create, ro>>)
                  /\ UNCHANGED <<readonly, lockTime, lockFile, nodes, metadata>>
             ELSE /\ lockTime' = IF ro THEN 0 ELSE now
                  /\ lockFile' = IF ro THEN lockFile ELSE Stamp(now)
                  /\ nodes' = IF create
                              THEN <<Rev_writeFile(folder, "level.dat", meta.value)>>
                              ELSE <<folder>>
                  /\ IF openVersionOk(meta)
                     THEN /\ metadata' = meta
                          /\ readonly' = ro
                          /\ ret' = Ret("open", "ok", <<create, ro>>)
                     ELSE /\ ret' = Ret("open", "AssertionError", <<create, ro>>)
                          /\ UNCHANGED <<readonly, metadata>>
    /\ UNCHANGED <<now, selected, chunk, wrote>>
    /\ UNCHANGED <<nibVars, secVars, peerVars>>

\* syncToDisk on the adapter __init__ returned
SyncOpened ==
    /\ metadata # NoMeta
    /\ SyncToDisk

-----------------------------------------------------------------------------
(* Metadata accessors and revisions *)

\* level names set through the LevelName accessor
LevelNames == {"new", "renamed"}

\* positions given to setWorldSpawnPosition
SpawnPositions == {<<0, 70, 0>>}

\* a field of the metadata set through its NBTAttr accessor: the value is
\* stored in the Data compound and the flag is set
SetNBTAttr ==
    /\ metadata # NoMeta
    /\ \E name \in LevelNames :
         metadata' = [value |-> [metadata.value EXCEPT
                                    !.Data = TagSet(rootTag(metadata), "LevelName", name)],
                      dirty |-> TRUE]
    /\ ret' = NoCall
    /\ UNCHANGED <<readonly, now, lockTime, lockFile, nodes, selected, chunk, wrote>>
    /\ UNCHANGED <<nibVars, secVars, peerVars>>

\* AnvilWorldMetadata.setWorldSpawnPosition: the three tags are replaced, the
\* flag is not touched
setWorldSpawnPosition(meta, pos) ==
    [meta EXCEPT !.value.Data =
        TagSet(TagSet(TagSet(@, "SpawnX", pos[1]), "SpawnY", pos[2]), "SpawnZ", pos[3])]

SetWorldSpawnPosition ==
    /\ metadata # NoMeta
    /\ \E pos \in SpawnPositions : metadata' = setWorldSpawnPosition(metadata, pos)
    /\ ret' = Ret("setWorldSpawnPosition", "ok", << >>)
    /\ UNCHANGED <<readonly, now, lockTime, lockFile, nodes, selected, chunk, wrote>>
    /\ UNCHANGED <<nibVars, secVars, peerVars>>

\* a writable adapter as __init__ leaves it on a world with a readable
\* level.dat
MetaInit ==
    /\ readonly = FALSE
    /\ now = 1
    /\ lockTime = 1
    /\ lockFile = Stamp(1)
    /\ nodes = << [chunks |-> EmptyMap,
                   files |-> [n \in {"level.dat"} |-> LevelDat("new", VERSION_ANVIL)]] >>
    /\ selected = 1
    /\ metadata = AnvilWorldMetadata(LevelDat("new", VERSION_ANVIL))
    /\ chunk = NoChunk
    /\ ret = NoCall
    /\ wrote = NoWrite
    /\ PeerIdle

\* RevisionHistory.getRevision: the node at a list index, counted from the
\* end when the index is negative
History_getRevision(history, index) ==
    IF index < 0 THEN Len(history) + index + 1 ELSE index + 1

\* the keys and names whose stored bytes differ between two revisions
History_getRevisionChanges(history, a, b) ==
    [chunks |-> {k \in DOMAIN history[a].chunks \cup DOMAIN history[b].chunks :
                    \/ k \notin DOMAIN history[a].chunks
                    \/ k \notin DOMAIN history[b].chunks
                    \/ history[a].chunks[k] # history[b].chunks[k]},
     files |-> {n \in DOMAIN history[a].files \cup DOMAIN history[b].files :
                    \/ n \notin DOMAIN history[a].files
                    \/ n \notin DOMAIN history[b].files
                    \/ history[a].files[n] # history[b].files[n]}]

\* indices selectRevision is called with
RevIndexes == (-1)..MaxRevisions

\* a faulty selectRevision that only checks the upper end
selectRevisionInvalidUpper(index) == index >= Len(nodes)

\* selectRevision, line 579
selectRevisionInvalid(index) == index < 0 \/ index >= Len(nodes)

\* AnvilWorldAdapter.selectRevision on a writable adapter, whose
\* revisionHistory is a RevisionHistory
SelectRevision ==
    /\ ~readonly
    /\ \E index \in RevIndexes :
         IF selectRevisionInvalid(index)
         THEN /\ ret' = Ret("selectRevision", "None", <<index>>)
              /\ UNCHANGED selected
         ELSE LET newRevision == History_getRevision(nodes, index)
              IN  /\ ret' = Ret("selectRevision", "changes",
                                <<index, History_getRevisionChanges(nodes, selected, newRevision)>>)
                  /\ selected' = newRevision
    /\ wrote' = NoWrite
    /\ UNCHANGED <<readonly, now, lockTime, lockFile, nodes, metadata, chunk>>
    /\ UNCHANGED <<nibVars, secVars, peerVars>>

-----------------------------------------------------------------------------
(* Players *)

\* player identifiers: "" is the single-player record of level.dat
PlayerIds == {"", "a"}

\* player records
PlayerTags == { [Health |-> 20], [Health |-> 5] }

\* "playerdata/%s.dat" % playerUUID
PlayerFilePath(playerUUID) == "playerdata/" \o playerUUID \o ".dat"

Rev_containsFile(rev, name) == name \in DOMAIN rev.files

\* a metadata tag with an embedded single-player record
WithPlayer(metadataTag, playerTag) ==
    [metadataTag EXCEPT !.Data = TagSet(@, "Player", playerTag)]

\* world folders with and without the embedded player and a player file
PlayerWorlds ==
    { [chunks |-> EmptyMap, files |-> f] :
        f \in { ("level.dat" :> d) @@ p :
                  d \in { LevelDat("new", VERSION_ANVIL),
                          WithPlayer(LevelDat("new", VERSION_ANVIL), [Health |-> 20]) },
                  p \in { EmptyMap,
                          [n \in {PlayerFilePath("a")} |-> [Health |-> 20]] } } }

\* the adapter as __init__ leaves it on such a world
PlayersInit ==
    /\ readonly \in BOOLEAN
    /\ now = 1
    /\ lockTime = IF readonly THEN 0 ELSE now
    /\ lockFile = IF readonly THEN [kind |-> "missing"] ELSE Stamp(now)
    /\ nodes \in {<<w>> : w \in PlayerWorlds}
    /\ selected = 1
    /\ metadata = AnvilWorldMetadata(Rev_readFile(nodes[1], "level.dat"))
    /\ chunk = NoChunk
    /\ ret = NoCall
    /\ wrote = NoWrite
    /\ PeerIdle

\* a faulty getPlayerTag that looks for a player file for every identifier
getPlayerTagFoundFileOnly(playerUUID) ==
    Rev_containsFile(nodes[selected], PlayerFilePath(playerUUID))

\* getPlayerTag, lines 789-802: whether the player is found
getPlayerTagFound(playerUUID) ==
    IF playerUUID = ""
    THEN "Player" \in DOMAIN rootTag(metadata)
    ELSE Rev_containsFile(nodes[selected], PlayerFilePath(playerUUID))

\* getPlayerTag: the record returned when the player is found
getPlayerTag(playerUUID) ==
    IF playerUUID = ""
    THEN rootTag(metadata)["Player"]
    ELSE Rev_readFile(nodes[selected], PlayerFilePath(playerUUID))

\* AnvilWorldAdapter.getPlayerTag
GetPlayerTag ==
    /\ \E playerUUID \in PlayerIds :
         ret' = IF getPlayerTagFound(playerUUID)
                THEN Ret("getPlayerTag", "ok", <<playerUUID, getPlayerTag(playerUUID)>>)
                ELSE Ret("getPlayerTag", "PlayerNotFound", <<playerUUID>>)
    /\ UNCHANGED <<readonly, now, lockTime, lockFile, nodes, selected, metadata, chunk, wrote>>
    /\ UNCHANGED <<nibVars, secVars, peerVars>>

\* AnvilWorldAdapter.savePlayerTag
SavePlayerTag ==
    /\ \E playerUUID \in PlayerIds, tag \in PlayerTags :
         /\ ret' = Ret("savePlayerTag", "ok", <<playerUUID>>)
         /\ IF playerUUID = ""
            THEN /\ metadata' = [metadata EXCEPT !.dirty = TRUE]
                 /\ UNCHANGED nodes
            ELSE /\ nodes' = [nodes EXCEPT ![selected] =
                        Rev_writeFile(nodes[selected], PlayerFilePath(playerUUID), tag)]
                 /\ UNCHANGED metadata
    /\ wrote' = NoWrite
    /\ UNCHANGED <<readonly, now, lockTime, lockFile, selected, chunk>>
    /\ UNCHANGED <<nibVars, secVars, peerVars>>

\* AnvilPlayerRef.__init__(adapter, playerUUID), lines 856-859, calls
\* adapter.getPlayerTag: it fails when its first argument is not the adapter
AnvilPlayerRef_init(firstIsAdapter) ==
    IF firstIsAdapter THEN "ok" ELSE "AttributeError"

\* a faulty createPlayer that does not look at the read-only flag
createPlayerReadonlyNever == FALSE

\* createPlayer, line 821
createPlayerReadonly == readonly

\* a faulty createPlayer that does not look for the player's file
createPlayerFileExistsNever(playerUUID) == FALSE

\* createPlayer, line 832
createPlayerFileExists(playerUUID) ==
    Rev_containsFile(nodes[selected], PlayerFilePath(playerUUID))

\* createPlayer, lines 827-830: the single-player record is looked for and
\* stored under rootTag["Data"], where rootTag is already the Data compound
createPlayerEmbeds(playerUUID) ==
    /\ ~createPlayerReadonly
    /\ playerUUID = ""
    /\ "Data" \in DOMAIN rootTag(metadata)
    /\ "Player" \notin DOMAIN rootTag(metadata)["Data"]

\* AnvilWorldAdapter.createPlayer: "ok" when it returns, otherwise the
\* exception it raises; line 837 builds AnvilPlayerRef(playerTag, self)
createPlayerOutcome(playerUUID) ==
    IF createPlayerReadonly THEN "IOError"
    ELSE IF playerUUID = "" /\ "Data" \notin DOMAIN rootTag(metadata) THEN "KeyError"
    ELSE IF playerUUID = "" /\ "Player" \in DOMAIN rootTag(metadata)["Data"] THEN "IOError"
    ELSE IF playerUUID # "" /\ createPlayerFileExists(playerUUID) THEN "ValueError"
    ELSE IF AnvilPlayerRef_init(FALSE) # "ok" THEN AnvilPlayerRef_init(FALSE)
    ELSE IF playerUUID # "Player" /\ checkSessionLock # "ok" THEN checkSessionLock
    ELSE IF ~getPlayerTagFound(playerUUID) THEN "PlayerNotFound"
    ELSE "ok"

CreatePlayer ==
    /\ \E playerUUID \in PlayerIds :
         /\ ret' = Ret("createPlayer", createPlayerOutcome(playerUUID), <<playerUUID>>)
         /\ metadata' =
              IF createPlayerEmbeds(playerUUID)
              THEN [metadata EXCEPT !.value.Data.Data = TagSet(@, "Player", EmptyTag)]
              ELSE metadata
         /\ nodes' =
              IF /\ createPlayerOutcome(playerUUID) \in {"ok", "PlayerNotFound"}
                 /\ playerUUID # "Player"
              THEN [nodes EXCEPT ![selected] =
                      Rev_writeFile(nodes[selected], PlayerFilePath(playerUUID), EmptyTag)]
              ELSE nodes
    /\ wrote' = NoWrite
    /\ UNCHANGED <<readonly, now, lockTime, lockFile, selected, chunk>>
    /\ UNCHANGED <<nibVars, secVars, peerVars>>

-----------------------------------------------------------------------------
(* Specifications *)

\* the nibble codec alone
InitNibble == NibInit /\ SecIdle /\ AdIdle
NextNibble ==
    \/ UnpackFirst
    \/ PackSecond
    \/ PackFirst
    \/ UnpackSecond
SpecNibble == InitNibble /\ [][NextNibble]_vars

\* the codec applied to uint8 arrays of any content
InitNibbleWide == NibWideInit /\ SecIdle /\ AdIdle
NextNibbleWide ==
    \/ UnpackFirst
    \/ PackSecond
    \/ PackFirst
    \/ UnpackSecond
SpecNibbleWide == InitNibbleWide /\ [][NextNibbleWide]_vars

\* one Section, edited, encoded and decoded
InitSection == SecInit /\ NibIdle /\ AdIdle
NextSection ==
    \/ EditSection
    \/ EncodeSection
    \/ DecodeSaved
    \/ DecodeReturned
SpecSection == InitSection /\ [][NextSection]_vars

\* the section store of one chunk held by the caller of a writable adapter:
\* the chunk is read or created, sections are asked for and edited
InitSections ==
    /\ AdInit /\ NibIdle /\ SecIdle
    /\ ~readonly
NextSections ==
    \/ ReadChunk
    \/ CreateChunk
    \/ GetSection
    \/ EditHeld
SpecSections == InitSections /\ [][NextSections]_vars

\* one chunk of a writable adapter's world, held by the caller: it is read,
\* its sections are created and edited, and it is written back
InitChunk ==
    /\ AdInit /\ NibIdle /\ SecIdle
    /\ ~readonly
    /\ Rev_containsChunk(nodes[1], <<0, 0, "">>)
NextChunk ==
    \/ ReadChunk
    \/ WriteChunk
    \/ CreateSection
    \/ EditHeld
SpecChunk == InitChunk /\ [][NextChunk]_vars

\* the adapter: session lock, revisions, metadata and chunk I/O
Init == AdInit /\ NibIdle /\ SecIdle
Next ==
    \/ Tick
    \/ ExternalAcquire
    \/ ExternalTruncate
    \/ CheckSessionLock
    \/ SaveChanges
    \/ SyncToDisk
    \/ SetMetadataAttr
    \/ CreateRevision
    \/ ReadChunk
    \/ WriteChunk
    \/ CreateChunk
    \/ DeleteChunk
Spec == Init /\ [][Next]_vars

\* two writable adapters on one world folder: the first holds the lock when
\* the second is constructed
InitLock ==
    /\ AdInit /\ NibIdle /\ SecIdle
    /\ ~readonly
NextLock ==
    \/ Tick
    \/ PeerAcquire
    \/ PeerCheckSessionLock
    \/ CheckSessionLock
    \/ SaveChanges
    \/ CreateRevision
    \/ CreateChunk
SpecLock == InitLock /\ [][NextLock]_vars

\* opening an adapter on what is found at a path, then changing and flushing
\* its metadata
InitOpen == Unopened /\ NibIdle /\ SecIdle
NextOpen ==
    \/ Open
    \/ SyncOpened
    \/ SetNBTAttr
    \/ SetWorldSpawnPosition
SpecOpen == InitOpen /\ [][NextOpen]_vars

\* the metadata of a writable adapter and its revisions
InitMeta == MetaInit /\ NibIdle /\ SecIdle
NextMeta ==
    \/ SetNBTAttr
    \/ SetWorldSpawnPosition
    \/ SyncToDisk
    \/ CreateRevision
    \/ SelectRevision
    \/ SaveChanges
SpecMeta == InitMeta /\ [][NextMeta]_vars


\* the players of a world opened read-only or writable
InitPlayers == PlayersInit /\ NibIdle /\ SecIdle
NextPlayers ==
    \/ CreatePlayer
    \/ GetPlayerTag
    \/ SavePlayerTag
    \/ SyncToDisk
    \/ SaveChanges
    \/ CheckSessionLock
    \/ CreateRevision
    \/ SelectRevision
SpecPlayers == InitPlayers /\ [][NextPlayers]_vars

-----------------------------------------------------------------------------
(* Claims *)

\* C1: encoding a Section with buildNBTTag and decoding the result with
\* AnvilSection(section_tag) gives back Blocks, Data, BlockLight and SkyLight
\* cell for cell, whatever the Section's history of edits and encodes.
C1_RoundTrip ==
    decoded # NoSection => Arrays(decoded) = encOf

\* C2: a record built from a Section whose block IDs are all <= 255 at the
\* time of the call has no Add field, also after earlier encodes.
C2_NoAddWhenNarrow ==
    (record # NoTag /\ \A i \in 1..SecCells : encOf.Blocks[i] <= 255)
        => "Add" \notin DOMAIN record

\* C3: a record built from a Section with some block ID >= 256 has an Add
\* field, its Blocks field holds the low 8 bits of each ID, and decoding it
\* recovers low8 | (add << 8), equal to the original ID, in every cell.
C3_WideIdsRecovered ==
    (record # NoTag /\ \E i \in 1..SecCells : encOf.Blocks[i] >= 256)
        => /\ "Add" \in DOMAIN record
           /\ \A i \in 1..SecCells : record["Blocks"][i] = encOf.Blocks[i] % 256
           /\ decoded # NoSection =>
                \A i \in 1..SecCells :
                    /\ decoded.Blocks[i] =
                         BitOr(record["Blocks"][i],
                               256 * unpackNibbleArray(record["Add"])[i])
                    /\ decoded.Blocks[i] = encOf.Blocks[i]

C3_Witness ==
    /\ decoded # NoSection
    /\ edits > 0
    /\ \E i \in 1..SecCells : encOf.Blocks[i] = 4095
    /\ \E i \in 1..SecCells : encOf.Blocks[i] <= 255

\* C4: packNibbleArray and unpackNibbleArray are exact inverses, on packed
\* grids of bytes and on unpacked grids of values 0..15, and neither call
\* modifies its argument.
C4_PackUnpackInverse ==
    /\ nibPc >= 1 => nibArg = nibOrig
    /\ nibPc = 2 => nibOut = nibOrig /\ nibMid = nibMid0

C4_Witness ==
    /\ nibPc = 2
    /\ nibKind = "unpacked"
    /\ nibOrig[1] = 15 /\ nibOrig[2] = 1
    /\ nibOut = nibOrig

\* C5: a held Section with all-zero Blocks, all-zero BlockLight and SkyLight
\* 15 everywhere is left out of the Sections list writeChunk stores, and after
\* readChunk at the same key the chunk holds no section at that index:
\* getSection(index) returns None and the index is not in sectionPositions().
TrivialArrays(a) ==
    /\ \A i \in 1..SecCells : a.Blocks[i] = 0
    /\ \A i \in 1..SecCells : a.BlockLight[i] = 0
    /\ \A i \in 1..SecCells : a.SkyLight[i] = 15

C5_ElidedSectionOmitted ==
    wrote # NoWrite =>
        \A cy \in DOMAIN wrote.sections :
            TrivialArrays(wrote.sections[cy]) =>
                /\ cy \notin StoredYs(Rev_readChunkBytes(nodes[selected], wrote.key))
                /\ (ret.op = "readChunk" /\ ret.outcome = "ok" /\ ret.arg = wrote.key)
                      => /\ cy \notin sectionPositions(chunk)
                         /\ getSection_ret(chunk, cy, FALSE) = "None"

C5_Witness ==
    /\ wrote # NoWrite
    /\ ret.op = "readChunk" /\ ret.outcome = "ok"
    /\ \E cy \in DOMAIN wrote.sections : TrivialArrays(wrote.sections[cy])
    /\ \E cy \in DOMAIN wrote.sections : cy \in sectionPositions(chunk)

\* C6: for an index whose slab is outside the world height (index < 0, or
\* index*16 not below maxHeight), getSection(index, create=True) fails with a
\* range error, getSection(index, create=False) returns None, and in both
\* cases the index is not among the held sections afterwards.
C6_OutOfRangeIndex ==
    (ret.op = "getSection" /\ (ret.arg[1] < 0 \/ ret.arg[1] * 16 >= maxHeight))
        => /\ ret.outcome = IF ret.arg[2] THEN "ValueError" ELSE "None"
           /\ ret.arg[1] \notin sectionPositions(chunk)

\* C7: every held section index cy satisfies minHeight <= cy*16 < maxHeight,
\* after any sequence of getSection calls.
C7_HeldIndicesInRange ==
    chunk # NoChunk =>
        \A cy \in sectionPositions(chunk) :
            minHeight <= cy * 16 /\ cy * 16 < maxHeight

\* the session.lock file holds a timestamp that is not the adapter's
LockReplaced ==
    ~readonly /\ lockFile.kind = "stamp" /\ lockFile.t # lockTime

\* the session.lock file no longer holds the adapter's timestamp, and the
\* millisecond of the acquisition is over
LockGone ==
    ~readonly /\ lockFile # Stamp(lockTime) /\ now > lockTime

\* C8: after acquireSessionLock, checkSessionLock succeeds while the lock
\* file is untouched; once the file has been rewritten with a different
\* timestamp, every later checkSessionLock fails with SessionLockLost and
\* every later saveChanges fails before the write-through, leaving the
\* revisions and the selected revision unchanged.
C8_LockLossIsFinal ==
    [][ /\ (CheckSessionLock /\ ~readonly /\ lockFile = Stamp(lockTime))
              => ret'.outcome = "ok"
        /\ LockReplaced => LockGone
        /\ LockGone => LockGone'
        /\ (CheckSessionLock /\ LockGone) => ret'.outcome = "SessionLockLost"
        /\ (SaveChanges /\ LockGone)
              => /\ ret'.outcome = "SessionLockLost"
                 /\ UNCHANGED <<nodes, selected>> ]_vars

C8_Witness ==
    /\ LockReplaced
    /\ ret.op = "saveChanges" /\ ret.outcome = "SessionLockLost"
    /\ selected # 1
    /\ nodes[selected] # nodes[1]

\* C9: every adapter operation that writes to the backing store validates
\* the session lock first, so that once the lock file has been replaced by
\* another process no operation changes what the world folder or any
\* existing revision stores.
C9_NoWriteAfterLockLoss ==
    [][ LockReplaced => \A i \in 1..Len(nodes) : nodes'[i] = nodes[i] ]_vars

\* C10: createChunk at a key that already holds a chunk in the selected
\* revision fails, writes nothing and leaves the stored bytes unchanged; a
\* createChunk that succeeds makes containsChunk true for the key, so that a
\* second createChunk at the same key fails.
C10_CreateChunkOnce ==
    [][ \A key \in ChunkKeys :
          (CreateChunk /\ ret'.op = "createChunk" /\ ret'.arg = key) =>
              IF Rev_containsChunk(nodes[selected], key)
              THEN ret'.outcome = "ValueError" /\ nodes' = nodes
              ELSE /\ ret'.outcome = "ok"
                   /\ Rev_containsChunk(nodes'[selected'], key) ]_vars

C10_Witness ==
    /\ ret.op = "createChunk" /\ ret.outcome = "ValueError"
    /\ Rev_containsChunk(nodes[selected], ret.arg)
    /\ chunk # NoChunk /\ chunk.dirty
    /\ "Sections" \in DOMAIN Rev_readChunkBytes(nodes[selected], ret.arg)

\* the call that has just returned is an open without create of a folder
\* whose level.dat cannot be read and whose level.dat_old can
OpenedFromBackup ==
    /\ ret.op = "open" /\ ~ret.arg[1]
    /\ nodes[1].kind = "dir"
    /\ ~Readable(nodes[1], "level.dat")
    /\ Readable(nodes[1], "level.dat_old")

\* C11: opening an existing world (create=False), read-only or writable,
\* whose level.dat cannot be read but whose level.dat_old is valid succeeds,
\* and the adapter's metadata holds the values of level.dat_old, not
\* synthesized defaults.
C11_BackupRestored ==
    OpenedFromBackup =>
        /\ ret.outcome = "ok"
        /\ metadata # NoMeta
        /\ metadata.value = Rev_readFile(nodes[1], "level.dat_old")

\* C12: after an open that restored the metadata from level.dat_old because
\* level.dat was unreadable, the metadata's dirty flag is set.
C12_RestoredIsDirty ==
    (/\ OpenedFromBackup
     /\ ret.outcome = "ok"
     /\ metadata.value = Rev_readFile(nodes[1], "level.dat_old"))
        => metadata.dirty

\* C13: selectRevision(index) with index < 0 or index >= the number of
\* revisions returns None and leaves the selected revision unchanged; with a
\* valid index it selects the revision at that index and returns the changes
\* between the previously selected revision and the new one.
C13_SelectRevision ==
    [][ \A index \in RevIndexes :
          (SelectRevision /\ ret'.op = "selectRevision" /\ ret'.arg[1] = index) =>
              IF index < 0 \/ index >= Len(nodes)
              THEN ret'.outcome = "None" /\ selected' = selected
              ELSE /\ ret'.outcome = "changes"
                   /\ selected' = index + 1
                   /\ ret'.arg[2] = History_getRevisionChanges(nodes, selected, index + 1) ]_vars

C13_Witness ==
    /\ ret.op = "selectRevision" /\ ret.outcome = "changes"
    /\ ret.arg[1] = 0
    /\ selected = 1
    /\ ret.arg[2].files = {"level.dat"}

C20_OpenRejects ==
    [][ Open =>
          /\ (/\ ret'.arg[1]
              /\ nodes[1].kind = "dir"
              /\ DOMAIN nodes[1].files # {})
                => /\ ret'.outcome # "ok"
                   /\ metadata' = NoMeta
                   /\ nodes' = nodes
          /\ (~ret'.arg[1] /\ nodes[1].kind = "absent")
                => /\ ret'.outcome # "ok"
                   /\ metadata' = NoMeta
                   /\ nodes' = nodes
                   /\ lockFile' = lockFile ]_vars

\* C14: on an adapter opened read-only, saveChanges, createPlayer and
\* checkSessionLock are each rejected with an error before any write, and
\* leave the selected revision, the metadata and the store unchanged.
C14_ReadOnlyRejects ==
    [][ readonly =>
          /\ SaveChanges =>
                ret'.outcome = "IOError" /\ UNCHANGED <<nodes, selected, metadata>>
          /\ CreatePlayer =>
                ret'.outcome = "IOError" /\ UNCHANGED <<nodes, selected, metadata>>
          /\ CheckSessionLock =>
                ret'.outcome = "SessionLockLost" /\ UNCHANGED <<nodes, selected, metadata>> ]_vars

C14_Witness ==
    /\ readonly
    /\ ret = Ret("createPlayer", "IOError", <<"a">>)
    /\ ~Rev_containsFile(nodes[selected], PlayerFilePath("a"))

C18_SinglePlayerDeferred ==
    [][ (/\ CreatePlayer /\ ret'.op = "createPlayer" /\ ret'.arg = <<"">>
         /\ ~readonly
         /\ "Player" \notin DOMAIN rootTag(metadata))
            => /\ ret'.outcome = "ok"
               /\ nodes' = nodes
               /\ "Player" \in DOMAIN rootTag(metadata') ]_vars

\* C19: getPlayerTag(id) fails with PlayerNotFound exactly when the player is
\* absent (for "" no Player record in the metadata, for another id no
\* playerdata/<id>.dat in the selected revision); otherwise it returns that
\* player's record; the lookup changes no state.
C19_GetPlayerTag ==
    [][ \A playerUUID \in PlayerIds :
          (GetPlayerTag /\ ret'.op = "getPlayerTag" /\ ret'.arg[1] = playerUUID) =>
              /\ UNCHANGED <<nodes, selected, metadata, lockFile, lockTime>>
              /\ IF playerUUID = ""
                 THEN IF "Player" \in DOMAIN metadata.value["Data"]
                      THEN /\ ret'.outcome = "ok"
                           /\ ret'.arg[2] = metadata.value["Data"]["Player"]
                      ELSE ret'.outcome = "PlayerNotFound"
                 ELSE IF PlayerFilePath(playerUUID) \in DOMAIN nodes[selected].files
                      THEN /\ ret'.outcome = "ok"
                           /\ ret'.arg[2] = nodes[selected].files[PlayerFilePath(playerUUID)]
                      ELSE ret'.outcome = "PlayerNotFound" ]_vars

C19_Witness ==
    /\ ret = Ret("getPlayerTag", "PlayerNotFound", <<"a">>)
    /\ selected = 1 /\ Len(nodes) = 2
    /\ Rev_containsFile(nodes[2], PlayerFilePath("a"))

\* C22: AnvilChunkData.buildNBTTag emits the sections it does not elide in
\* ascending order of section index, for every set of held indices and every
\* order in which they were inserted.
C22_AscendingOrder ==
    wrote # NoWrite =>
        LET list == Rev_readChunkBytes(nodes[selected], wrote.key)["Sections"]
        IN  \A i, j \in DOMAIN list : i < j => list[i]["Y"] < list[j]["Y"]

\* the arrays of a Section as getSection(create=True) makes it
BlankArrays(a) ==
    /\ \A i \in 1..SecCells : a.Blocks[i] = 0
    /\ \A i \in 1..SecCells : a.BlockLight[i] = 0
    /\ \A i \in 1..SecCells : a.SkyLight[i] = 0

\* C23: every held Section that does not meet the elision condition (a blank
\* one just made by getSection(create=True) included: its SkyLight is zero)
\* appears exactly once in the written Sections list, with Y equal to its
\* index; a readChunk after the writeChunk holds a Section at exactly those
\* indices.
C23_KeptSectionsWritten ==
    wrote # NoWrite =>
        LET list == Rev_readChunkBytes(nodes[selected], wrote.key)["Sections"]
            kept == {cy \in DOMAIN wrote.sections : ~TrivialArrays(wrote.sections[cy])}
        IN  /\ \A cy \in kept : Cardinality({j \in DOMAIN list : list[j]["Y"] = cy}) = 1
            /\ (ret.op = "readChunk" /\ ret.outcome = "ok" /\ ret.arg = wrote.key)
                  => sectionPositions(chunk) = kept

C23_Witness ==
    /\ wrote # NoWrite
    /\ ret.op = "readChunk" /\ ret.outcome = "ok" /\ ret.arg = wrote.key
    /\ \E cy \in DOMAIN wrote.sections :
          /\ BlankArrays(wrote.sections[cy])
          /\ cy \in sectionPositions(chunk)
          /\ cy \in StoredYs(Rev_readChunkBytes(nodes[selected], wrote.key))

\* C27: for an index inside the world height, getSection(index, create=True)
\* returns the Section already held at that index and leaves it as it is, and
\* for an index not held registers a zero-filled Section with Y = index;
\* getSection(index, create=False) never changes the set of held indices; no
\* getSection call changes a Section other than the one it returns.
C27_GetSectionFrame ==
    [][ ret'.op = "getSection" =>
          LET cy == ret'.arg[1]
              create == ret'.arg[2]
              inside == 0 <= cy /\ cy * 16 < maxHeight
          IN  /\ (inside /\ create /\ cy \in DOMAIN chunk.sections)
                    => /\ ret'.outcome = "section"
                       /\ chunk'.sections = chunk.sections
              /\ (inside /\ create /\ cy \notin DOMAIN chunk.sections)
                    => /\ ret'.outcome = "section"
                       /\ DOMAIN chunk'.sections = DOMAIN chunk.sections \cup {cy}
                       /\ chunk'.sections[cy].Y = cy
                       /\ \A i \in 1..SecCells :
                             /\ chunk'.sections[cy].Blocks[i] = 0
                             /\ chunk'.sections[cy].Data[i] = 0
                             /\ chunk'.sections[cy].SkyLight[i] = 0
                             /\ chunk'.sections[cy].BlockLight[i] = 0
              /\ ~create => DOMAIN chunk'.sections = DOMAIN chunk.sections
              /\ \A other \in DOMAIN chunk.sections \ {cy} :
                    /\ other \in DOMAIN chunk'.sections
                    /\ chunk'.sections[other] = chunk.sections[other] ]_vars

C27_Witness ==
    /\ ret = Ret("getSection", "section", <<0, TRUE>>)
    /\ 0 \in DOMAIN chunk.sections
    /\ ~BlankArrays(Arrays(chunk.sections[0]))

\* the file of the opened folder holds a readable tag of another version
OtherVersion(files, name) ==
    /\ name \in DOMAIN files
    /\ "Data" \in DOMAIN files[name]
    /\ files[name]["Data"]["version"] # VERSION_ANVIL

\* the file of the opened folder is missing or cannot be read
Unreadable(files, name) ==
    name \notin DOMAIN files \/ "Data" \notin DOMAIN files[name]

\* C21: an open never completes with metadata whose format version differs
\* from 19133, whichever path supplied the metadata (level.dat, level.dat_old
\* or the defaults); a different version makes the open fail.
C21_OpenedVersionIsAnvil ==
    /\ metadata # NoMeta => metadata.value["Data"]["version"] = 19133
    /\ (ret.op = "open" /\ ret.outcome = "ok") => metadata # NoMeta
    /\ (ret.op = "open" /\ ~ret.arg[1] /\ nodes[1].kind = "dir")
          => /\ OtherVersion(nodes[1].files, "level.dat")
                  => (ret.outcome = "AssertionError" /\ metadata = NoMeta)
             /\ (/\ ~ret.arg[2]
                 /\ Unreadable(nodes[1].files, "level.dat")
                 /\ OtherVersion(nodes[1].files, "level.dat_old"))
                  => (ret.outcome = "AssertionError" /\ metadata = NoMeta)

C21_Witness ==
    /\ ret = Ret("open", "AssertionError", <<FALSE, FALSE>>)
    /\ metadata = NoMeta
    /\ Unreadable(nodes[1].files, "level.dat")
    /\ OtherVersion(nodes[1].files, "level.dat_old")

\* C25: createPlayer(id) with a non-empty id that has no player file, on a
\* writable adapter whose session lock is valid, succeeds and writes
\* playerdata/<id>.dat, so that getPlayerTag(id) then returns a record; when
\* the lock check fails no player file is written.
C25_CreatePlayerNew ==
    [][ \A playerUUID \in PlayerIds \ {""} :
          (/\ CreatePlayer /\ ret'.op = "createPlayer" /\ ret'.arg = <<playerUUID>>
           /\ ~readonly
           /\ PlayerFilePath(playerUUID) \notin DOMAIN nodes[selected].files)
             => IF lockFile = Stamp(lockTime)
                THEN /\ ret'.outcome = "ok"
                     /\ PlayerFilePath(playerUUID) \in DOMAIN nodes'[selected].files
                ELSE /\ ret'.outcome # "ok"
                     /\ nodes' = nodes ]_vars

\* C26: unpackNibbleArray puts the low four bits of byte k at index 2k and
\* the high four bits at index 2k+1; packNibbleArray computes byte k as
\* (u[2k+1] << 4) | u[2k] in 8-bit arithmetic, so a cell above 15 at an odd
\* index loses its bits above the fourth and one at an even index corrupts
\* the high nibble: the result is a valid packing only for cells in 0..15.
\* (Sequences are indexed from 1: index 2k is position 2k-1 of pair k.)
C26_NibbleLayout ==
    /\ (nibKind = "packed" /\ nibPc >= 1) =>
          /\ Len(nibMid0) = 2 * Len(nibOrig)
          /\ \A k \in DOMAIN nibOrig :
                /\ nibMid0[2 * k - 1] = nibOrig[k] % 16
                /\ nibMid0[2 * k] = nibOrig[k] \div 16
    /\ (nibKind = "unpacked" /\ nibPc >= 1) =>
          /\ 2 * Len(nibMid0) = Len(nibOrig)
          /\ \A k \in DOMAIN nibMid0 :
                /\ nibMid0[k] = BitOr((nibOrig[2 * k] * 16) % 256, nibOrig[2 * k - 1])
                /\ nibMid0[k] % 16 = nibOrig[2 * k - 1] % 16
                /\ nibOrig[2 * k - 1] <= 15 => nibMid0[k] \div 16 = nibOrig[2 * k] % 16
                /\ nibOrig[2 * k - 1] > 15 =>
                      nibMid0[k] \div 16 =
                          BitOr(nibOrig[2 * k] % 16, nibOrig[2 * k - 1] \div 16)
    /\ (nibKind = "unpacked" /\ nibPc = 2) =>
          (nibOut = nibOrig <=> \A i \in DOMAIN nibOrig : nibOrig[i] <= 15)

C26_Witness ==
    /\ nibKind = "unpacked" /\ nibPc = 2
    /\ nibOrig[1] = 16 /\ nibOrig[2] = 8
    /\ nibOrig[3] = 0 /\ nibOrig[4] = 31
    /\ nibOut[1] = 0 /\ nibOut[2] = 9
    /\ nibOut[3] = 0 /\ nibOut[4] = 15

=============================================================================
